---- MODULE Spec2Model ----
(***************************************************************************)
(* csvpeek (src/main.rs): the query pipeline of read_csv.                  *)
(*                                                                         *)
(* A string is a sequence of one-character strings, so that split(',')     *)
(* and split('=') are computed as the code computes them.  An Option is a  *)
(* sequence of length 0 (None) or 1 (Some).  Column indices are 0-based as *)
(* in the code; the i-th element of a Rust vector v is v[i + 1] here.      *)
(* The model covers query mode (info = false).  The u32 counters stay far  *)
(* below 2^32 on the streams considered, so they are plain integers.       *)
(***************************************************************************)
EXTENDS Integers, Sequences, FiniteSets, TLC

VARIABLES
    headers,          \* the header record of the file
    file,             \* what rdr.records() yields, in order: records and read errors
    cols,             \* Option<String>: --cols
    filters,          \* Option<String>: --filter
    offset,           \* u32: --offset
    max_rows,         \* u32: -n
    pc,               \* position in read_csv / main
    col_idx_hashmap,  \* HashMap<String, usize>
    col_indices,      \* Vec<usize>
    n_filters,        \* Vec<RowFilter>
    rows_processed,   \* u32
    rows_ignored,     \* u32
    pos,              \* number of items pulled from rdr.records()
    out,              \* lines written to standard output, in order
    result,           \* "Running", "Ok", "Err" or "Panic"
    err,              \* which error or panic ended read_csv ("" if none)
    exit_code,        \* process exit status, -1 while the process runs
    emitted,          \* history: stream positions of the records printed as rows
    evals             \* history: the calls of RowFilter::accepts, in order

vars == <<headers, file, cols, filters, offset, max_rows, pc, col_idx_hashmap,
          col_indices, n_filters, rows_processed, rows_ignored, pos, out,
          result, err, exit_code, emitted, evals>>

inputs == <<headers, file, cols, filters, offset, max_rows>>

-----------------------------------------------------------------------------
(* Bounds of the model.                                                    *)

MaxRows == 4
MaxOffset == 2
MaxLimit == 2
MaxFilterLen == 4
MaxColsLen == 3

-----------------------------------------------------------------------------
(* Strings.                                                                *)

None == <<>>
Some(v) == <<v>>

RECURSIVE Split(_, _)
\* str::split(sep): the pieces between the separators; "" gives [""].
Split(s, sep) ==
    IF s = <<>> THEN << <<>> >>
    ELSE LET rest == Split(Tail(s), sep) IN
         IF Head(s) = sep THEN << <<>> >> \o rest
         ELSE << <<Head(s)>> \o Head(rest) >> \o Tail(rest)

Contains(s, c) == \E i \in DOMAIN s : s[i] = c

RECURSIVE StringsUpTo(_, _)
StringsUpTo(chars, n) ==
    IF n = 0 THEN { <<>> }
    ELSE LET shorter == StringsUpTo(chars, n - 1) IN
         shorter \cup { <<c>> \o s : c \in chars, s \in { t \in shorter : Len(t) = n - 1 } }

-----------------------------------------------------------------------------
(* Schema index and projection.                                            *)

HashMapInsert(m, k, v) == [x \in (DOMAIN m) \cup {k} |-> IF x = k THEN v ELSE m[x]]

HashMapGet(m, k) == IF k \in DOMAIN m THEN Some(m[k]) ELSE None

RECURSIVE BuildColIdx(_, _, _)
\* for header in headers { col_idx_hashmap.insert(header, header_idx); header_idx += 1 }
BuildColIdx(hs, header_idx, m) ==
    IF header_idx = Len(hs) THEN m
    ELSE BuildColIdx(hs, header_idx + 1, HashMapInsert(m, hs[header_idx + 1], header_idx))

\* headers.iter().position(|h| h == name)
Position(hs, name) ==
    IF \E i \in DOMAIN hs : hs[i] = name
    THEN Some((CHOOSE i \in DOMAIN hs : hs[i] = name /\ \A j \in 1..(i - 1) : hs[j] # name) - 1)
    ELSE None

\* col_names.iter().map(position).collect::<Result<Vec<usize>, &str>>()
ResolveIndices(col_names, hs) ==
    IF \E i \in DOMAIN col_names : Position(hs, col_names[i]) = None
    THEN None
    ELSE Some([i \in DOMAIN col_names |-> Position(hs, col_names[i])[1]])

RECURSIVE PrintLoop(_, _)
\* the print! loop: each value, and "," after all but the last
PrintLoop(vals, print_index) ==
    IF print_index >= Len(vals) THEN <<>>
    ELSE vals[print_index + 1]
         \o (IF print_index < Len(vals) - 1 THEN <<",">> ELSE <<>>)
         \o PrintLoop(vals, print_index + 1)

HeaderValues(hs, indices) == [i \in DOMAIN indices |-> hs[indices[i] + 1]]

ProjectRow_FileOrder(record, indices) ==
    LET picked == { indices[i] : i \in DOMAIN indices }
        keep(j) == (j - 1) \in picked
        RECURSIVE Sel(_)
        Sel(j) == IF j > Len(record) THEN <<>>
                  ELSE (IF keep(j) THEN <<record[j]>> ELSE <<>>) \o Sel(j + 1)
    IN Sel(1)

\* record.get(*i).unwrap_or_default() for each i of col_indices
ProjectRow(record, indices) ==
    [i \in DOMAIN indices |->
        IF indices[i] < Len(record) THEN record[indices[i] + 1] ELSE <<>>]

\* println!("{:?}", record)
DebugRecord(record) ==
    LET quoted == [i \in DOMAIN record |-> <<"\"">> \o record[i] \o <<"\"">>]
        RECURSIVE List(_)
        List(i) == IF i > Len(quoted) THEN <<>>
                   ELSE quoted[i] \o (IF i < Len(quoted) THEN <<",", " ">> ELSE <<>>)
                        \o List(i + 1)
    IN <<"StringRecord([">> \o List(1) \o <<"])">>

FormatRow(record, c, indices) ==
    IF c # None THEN PrintLoop(ProjectRow(record, indices), 0) ELSE DebugRecord(record)

-----------------------------------------------------------------------------
(* RowFilter.                                                              *)

\* RowFilter::new: a filter, or the panic it ends in
RowFilter_new(filter_str, col_idx_dict) ==
    IF Contains(filter_str, "=")
    THEN LET left_and_right == Split(filter_str, "=")
             left_column == HashMapGet(col_idx_dict, left_and_right[1])
         IN IF left_column = None
            THEN [panic |-> "UnwrapNone"]
            ELSE [panic |-> "",
                  left_column |-> left_column,
                  right_column |-> None,
                  left_value |-> None,
                  right_value |-> Some(left_and_right[2]),
                  operator |-> "EqualString"]
    ELSE [panic |-> "NoOperator"]

\* RowFilter::accepts; the column index is always within a record of the
\* stream, which has as many fields as the header
Accepts(filter, row) ==
    LET left_value == row[filter.left_column[1] + 1]
        right_value == filter.right_value[1]
    IN left_value = right_value

RECURSIVE EvalFilters(_, _, _, _)
\* for filter in &_n_filters { if !filter.accepts(..) { continue 'records_loop } }
EvalFilters(fs, row, at, i) ==
    IF i > Len(fs) THEN <<>>
    ELSE LET r == Accepts(fs[i], row) IN
         <<[pos |-> at, filter |-> i, result |-> r]>>
         \o (IF r THEN EvalFilters(fs, row, at, i + 1) ELSE <<>>)

AllAccept(trace, fs) == Len(trace) = Len(fs) /\ \A i \in DOMAIN trace : trace[i].result

-----------------------------------------------------------------------------
(* Control flow of read_csv.                                               *)

Succ_FiltersAfterLoop(p) ==
    CASE p = "schema" -> "cols"
      [] p = "cols" -> "records"
      [] p = "records" -> "filters"
      [] p = "filters" -> "returned"

\* the order of the blocks of read_csv; after the loop comes Ok(())
Succ(p) ==
    CASE p = "schema" -> "cols"
      [] p = "cols" -> "filters"
      [] p = "filters" -> "records"
      [] p = "records" -> "returned"

InOffset_Inclusive(ignored, off) == ignored <= off

\* if rows_ignored < offset
InOffset(ignored, off) == ignored < off

LimitReached_OffByOne(processed, max) == processed = max + 1

\* if rows_processed == max_rows
LimitReached(processed, max) == processed = max

Advance(p) ==
    /\ pc' = Succ(p)
    /\ result' = IF Succ(p) = "returned" THEN "Ok" ELSE result

FilterStrings == IF filters = None THEN <<>> ELSE Split(filters[1], ",")

Line(kind, text) == [kind |-> kind, text |-> text]

-----------------------------------------------------------------------------
(* Inputs.                                                                 *)

Bad == [ok |-> FALSE, rec |-> <<>>]
Good(r) == [ok |-> TRUE, rec |-> r]

A == <<"a">>
B == <<"b">>
X == <<"x">>
Y == <<"y">>

SeqsUpTo(S, n) == UNION { [1..k -> S] : k \in 0..n }

StreamItems == { Good(<<X, X>>), Good(<<X, Y>>), Good(<<Y, Y>>), Bad }

\* rich record streams, a fixed header, a few projections and filter sets
InStream ==
    /\ headers = <<A, B>>
    /\ file \in SeqsUpTo(StreamItems, MaxRows)
    /\ cols \in { None, Some(<<"b", ",", "a">>) }
    /\ filters \in { None, Some(<<"a", "=", "x">>),
                     Some(<<"a", "=", "x", ",", "b", "=", "y">>) }
    /\ offset \in 0..MaxOffset
    /\ max_rows \in 0..MaxLimit

\* every filter string over a small alphabet
InFilters ==
    /\ headers \in { <<A, B>>, <<A, A>>, <<A, X>> }
    /\ file = << Good(<<X, X>>), Good(<<<<"x", "=">>, X>>), Good(<<A, <<"x", "=">>>>) >>
    /\ cols \in { None, Some(A) }
    /\ filters \in { Some(s) : s \in StringsUpTo({"a", "x", "=", ","}, MaxFilterLen) }
    /\ offset = 0
    /\ max_rows \in {0, MaxLimit}

\* every projection string over a small alphabet
InCols ==
    /\ headers \in { <<A, B>>, <<A, A>>, <<B, A>> }
    /\ file \in { << Good(<<X, Y>>) >>, << Good(<<X, Y>>), Bad, Good(<<Y, X>>) >> }
    /\ cols \in { Some(s) : s \in StringsUpTo({"a", "b", ","}, MaxColsLen) }
    /\ filters \in { None, Some(<<"a", "=", "x">>), Some(<<"c", "=", "x">>) }
    /\ offset \in {0, 1}
    /\ max_rows \in {1, MaxLimit}

Init ==
    /\ InStream \/ InFilters \/ InCols
    /\ pc = "schema"
    /\ col_idx_hashmap = <<>>
    /\ col_indices = <<>>
    /\ n_filters = <<>>
    /\ rows_processed = 0
    /\ rows_ignored = 0
    /\ pos = 0
    /\ out = <<>>
    /\ result = "Running"
    /\ err = ""
    /\ exit_code = -1
    /\ emitted = <<>>
    /\ evals = <<>>

-----------------------------------------------------------------------------
(* Actions.                                                                *)

\* lines 154-160
BuildSchema ==
    /\ pc = "schema"
    /\ col_idx_hashmap' = BuildColIdx(headers, 0, <<>>)
    /\ Advance("schema")
    /\ UNCHANGED <<inputs, col_indices, n_filters, rows_processed, rows_ignored,
                   pos, out, err, exit_code, emitted, evals>>

\* lines 164-180, cols = None
NoCols ==
    /\ pc = "cols"
    /\ cols = None
    /\ Advance("cols")
    /\ UNCHANGED <<inputs, col_idx_hashmap, col_indices, n_filters, rows_processed,
                   rows_ignored, pos, out, err, exit_code, emitted, evals>>

\* lines 164-180, every name found: the header line is printed
ResolveCols ==
    /\ pc = "cols"
    /\ cols # None
    /\ LET resolved == ResolveIndices(Split(cols[1], ","), headers) IN
        /\ resolved # None
        /\ col_indices' = resolved[1]
        /\ out' = Append(out, Line("header", PrintLoop(HeaderValues(headers, resolved[1]), 0)))
    /\ Advance("cols")
    /\ UNCHANGED <<inputs, col_idx_hashmap, n_filters, rows_processed, rows_ignored,
                   pos, err, exit_code, emitted, evals>>

\* lines 169-170, a name not found: `?` returns Err("Column not found")
ResolveColsErr ==
    /\ pc = "cols"
    /\ cols # None
    /\ ResolveIndices(Split(cols[1], ","), headers) = None
    /\ pc' = "returned"
    /\ result' = "Err"
    /\ err' = "Column not found"
    /\ UNCHANGED <<inputs, col_idx_hashmap, col_indices, n_filters, rows_processed,
                   rows_ignored, pos, out, exit_code, emitted, evals>>

\* lines 187-189, one clause compiled and pushed
CompileFilter ==
    /\ pc = "filters"
    /\ Len(n_filters) < Len(FilterStrings)
    /\ LET f == RowFilter_new(FilterStrings[Len(n_filters) + 1], col_idx_hashmap) IN
        /\ f.panic = ""
        /\ n_filters' = Append(n_filters, f)
    /\ UNCHANGED <<inputs, pc, col_idx_hashmap, col_indices, rows_processed, rows_ignored,
                   pos, out, result, err, exit_code, emitted, evals>>

\* lines 187-189, RowFilter::new panics (line 88 or line 100)
CompileFilterPanic ==
    /\ pc = "filters"
    /\ Len(n_filters) < Len(FilterStrings)
    /\ LET f == RowFilter_new(FilterStrings[Len(n_filters) + 1], col_idx_hashmap) IN
        /\ f.panic # ""
        /\ err' = f.panic
    /\ pc' = "panicked"
    /\ result' = "Panic"
    /\ UNCHANGED <<inputs, col_idx_hashmap, col_indices, n_filters, rows_processed,
                   rows_ignored, pos, out, exit_code, emitted, evals>>

\* lines 183-190, no clause left
FiltersDone ==
    /\ pc = "filters"
    /\ Len(n_filters) = Len(FilterStrings)
    /\ Advance("filters")
    /\ UNCHANGED <<inputs, col_idx_hashmap, col_indices, n_filters, rows_processed,
                   rows_ignored, pos, out, err, exit_code, emitted, evals>>

\* lines 195-198: the item is dropped unexamined
SkipRecord ==
    /\ pc = "records"
    /\ pos < Len(file)
    /\ InOffset(rows_ignored, offset)
    /\ rows_ignored' = rows_ignored + 1
    /\ pos' = pos + 1
    /\ UNCHANGED <<inputs, pc, col_idx_hashmap, col_indices, n_filters, rows_processed,
                   out, result, err, exit_code, emitted, evals>>

\* line 201: `result?` on a read error
ReadError ==
    /\ pc = "records"
    /\ pos < Len(file)
    /\ ~InOffset(rows_ignored, offset)
    /\ ~file[pos + 1].ok
    /\ pos' = pos + 1
    /\ pc' = "returned"
    /\ result' = "Err"
    /\ err' = "RecordError"
    /\ UNCHANGED <<inputs, col_idx_hashmap, col_indices, n_filters, rows_processed,
                   rows_ignored, out, exit_code, emitted, evals>>

\* lines 203-208: a filter rejects, continue 'records_loop
RejectRecord ==
    /\ pc = "records"
    /\ pos < Len(file)
    /\ ~InOffset(rows_ignored, offset)
    /\ file[pos + 1].ok
    /\ LET trace == EvalFilters(n_filters, file[pos + 1].rec, pos + 1, 1) IN
        /\ ~AllAccept(trace, n_filters)
        /\ evals' = evals \o trace
    /\ pos' = pos + 1
    /\ UNCHANGED <<inputs, pc, col_idx_hashmap, col_indices, n_filters, rows_processed,
                   rows_ignored, out, result, err, exit_code, emitted>>

\* lines 203-230: every filter accepts, the row is printed and counted
EmitRecord ==
    /\ pc = "records"
    /\ pos < Len(file)
    /\ ~InOffset(rows_ignored, offset)
    /\ file[pos + 1].ok
    /\ LET trace == EvalFilters(n_filters, file[pos + 1].rec, pos + 1, 1) IN
        /\ AllAccept(trace, n_filters)
        /\ evals' = evals \o trace
    /\ out' = Append(out, Line("row", FormatRow(file[pos + 1].rec, cols, col_indices)))
    /\ emitted' = Append(emitted, pos + 1)
    /\ rows_processed' = rows_processed + 1
    /\ pos' = pos + 1
    /\ IF LimitReached(rows_processed', max_rows)
       THEN Advance("records")
       ELSE UNCHANGED <<pc, result>>
    /\ UNCHANGED <<inputs, col_idx_hashmap, col_indices, n_filters, rows_ignored,
                   err, exit_code>>

\* line 194: the iterator is exhausted
StreamEnd ==
    /\ pc = "records"
    /\ pos = Len(file)
    /\ Advance("records")
    /\ UNCHANGED <<inputs, col_idx_hashmap, col_indices, n_filters, rows_processed,
                   rows_ignored, pos, out, err, exit_code, emitted, evals>>

\* lines 250-253: main after read_csv returned
MainExit ==
    /\ pc = "returned"
    /\ pc' = "exited"
    /\ IF result = "Err"
       THEN /\ out' = Append(out, Line("error", <<"Error reading or processing CSV: ", err>>))
            /\ exit_code' = 1
       ELSE /\ out' = out
            /\ exit_code' = 0
    /\ UNCHANGED <<inputs, col_idx_hashmap, col_indices, n_filters, rows_processed,
                   rows_ignored, pos, result, err, emitted, evals>>

\* a panic unwinds through main: the process aborts with status 101
PanicAbort ==
    /\ pc = "panicked"
    /\ pc' = "exited"
    /\ exit_code' = 101
    /\ UNCHANGED <<inputs, col_idx_hashmap, col_indices, n_filters, rows_processed,
                   rows_ignored, pos, out, result, err, emitted, evals>>

Next ==
    \/ BuildSchema
    \/ NoCols
    \/ ResolveCols
    \/ ResolveColsErr
    \/ CompileFilter
    \/ CompileFilterPanic
    \/ FiltersDone
    \/ SkipRecord
    \/ ReadError
    \/ RejectRecord
    \/ EmitRecord
    \/ StreamEnd
    \/ MainExit
    \/ PanicAbort

Spec == Init /\ [][Next]_vars

-----------------------------------------------------------------------------
(* Vocabulary of the properties.                                           *)

Range(f) == { f[i] : i \in DOMAIN f }

RowLines == SelectSeq(out, LAMBDA l : l.kind = "row")

HeaderLines == SelectSeq(out, LAMBDA l : l.kind = "header")

WellFormed == \A p \in DOMAIN file : file[p].ok

Compiled == pc \in {"records", "returned", "exited"}

ColNames == Split(cols[1], ",")

\* the position of the first "=" of a clause that has one
FirstEq(clause) ==
    CHOOSE k \in DOMAIN clause :
        clause[k] = "=" /\ \A j \in 1..(k - 1) : clause[j] # "="

ClauseName(clause) == SubSeq(clause, 1, FirstEq(clause) - 1)

ClauseLiteral(clause) == SubSeq(clause, FirstEq(clause) + 1, Len(clause))

\* the least 0-based position of name in hs
FirstIndex(hs, name) ==
    CHOOSE i \in 0..(Len(hs) - 1) :
        hs[i + 1] = name /\ \A j \in 0..(i - 1) : hs[j + 1] # name

RECURSIVE JoinComma(_)
JoinComma(vals) ==
    IF vals = <<>> THEN <<>>
    ELSE IF Len(vals) = 1 THEN vals[1]
    ELSE vals[1] \o <<",">> \o JoinComma(Tail(vals))

IsPrefix(s, t) == Len(s) <= Len(t) /\ SubSeq(t, 1, Len(s)) = s

RECURSIVE AcceptedFrom(_)
\* the stream positions from p on whose record every compiled predicate accepts
AcceptedFrom(p) ==
    IF p > Len(file) THEN <<>>
    ELSE (IF \A i \in DOMAIN n_filters : Accepts(n_filters[i], file[p].rec)
          THEN <<p>> ELSE <<>>) \o AcceptedFrom(p + 1)

ExpectedRows ==
    LET acc == AcceptedFrom(offset + 1) IN
    SubSeq(acc, 1, IF Len(acc) < max_rows THEN Len(acc) ELSE max_rows)

BadCols == cols # None /\ \E i \in DOMAIN ColNames : ColNames[i] \notin Range(headers)

BadClause(clause) == ~Contains(clause, "=") \/ ClauseName(clause) \notin Range(headers)

BadFilters == \E i \in DOMAIN FilterStrings : BadClause(FilterStrings[i])

CompileErrors == {"Column not found", "UnwrapNone", "NoOperator"}

-----------------------------------------------------------------------------
(* Properties.                                                             *)

\* C1: with limit 0 no data row is ever emitted and no filter predicate is
\* ever evaluated.
C1_LimitZeroEmitsNothing ==
    max_rows = 0 => (emitted = <<>> /\ RowLines = <<>> /\ evals = <<>>)

\* C2: with limit >= 1 and a stream without read errors, the rows emitted so
\* far are a prefix of, and on return exactly, the first max_rows records after
\* the first `offset` records that every predicate accepts, in file order; no
\* record among the first `offset` is filtered, and only emitted rows count.
C2_EmitsFirstNAccepted ==
    (max_rows >= 1 /\ WellFormed /\ Compiled /\ result \in {"Running", "Ok"}) =>
        /\ IsPrefix(emitted, ExpectedRows)
        /\ (result = "Ok" => emitted = ExpectedRows)
        /\ Len(RowLines) = Len(emitted)
        /\ rows_processed = Len(emitted)
        /\ \A i \in DOMAIN evals : evals[i].pos > offset

C2_Witness ==
    /\ pc = "exited" /\ result = "Ok" /\ WellFormed
    /\ offset >= 1 /\ max_rows >= 1 /\ n_filters # <<>>
    /\ Len(emitted) = max_rows
    /\ \E i \in DOMAIN evals : ~evals[i].result /\ evals[i].pos < emitted[Len(emitted)]
    /\ \E p \in (pos + 1)..Len(file) :
           \A i \in DOMAIN n_filters : Accepts(n_filters[i], file[p].rec)

\* C3: every compiled clause has the text before its first "=" as column name
\* and all the text after its first "=" as literal.
C3_SplitsAtFirstEq ==
    \A i \in DOMAIN n_filters :
        /\ n_filters[i].left_column = HashMapGet(col_idx_hashmap, ClauseName(FilterStrings[i]))
        /\ n_filters[i].right_value = Some(ClauseLiteral(FilterStrings[i]))

\* C4: when --cols or --filter cannot be compiled (a clause without "=", an
\* unknown column), read_csv returns an error and the process exits with 1.
C4_CompileFailureExitsOne ==
    (pc = "exited" /\ (BadCols \/ BadFilters)) => (result = "Err" /\ exit_code = 1)

\* C5: a read error at any position pulled from the stream, the skipped ones
\* included, makes read_csv return an error at that position, with no row
\* emitted after it.
C5_ReadErrorAborts ==
    \A p \in 1..pos :
        (Compiled /\ ~file[p].ok) =>
            /\ result = "Err" /\ err = "RecordError"
            /\ pos = p
            /\ \A k \in DOMAIN emitted : emitted[k] < p

\* C6: when every --cols name is a header, col_indices has the length and the
\* order of the caller's list, the header line is the names joined by ",", and
\* each emitted row is the record's fields at col_indices, in order, joined
\* by ",".
C6_ProjectionKeepsCallerOrder ==
    (cols # None /\ ~BadCols /\ pc \notin {"schema", "cols"}) =>
        /\ Len(col_indices) = Len(ColNames)
        /\ \A i \in DOMAIN ColNames : headers[col_indices[i] + 1] = ColNames[i]
        /\ HeaderLines = << Line("header", JoinComma(ColNames)) >>
        /\ out[1].kind = "header"
        /\ Len(RowLines) = Len(emitted)
        /\ \A k \in DOMAIN emitted :
               RowLines[k].text =
                   JoinComma([i \in DOMAIN col_indices |->
                                 file[emitted[k]].rec[col_indices[i] + 1]])

C6_Witness ==
    /\ pc = "exited" /\ result = "Ok"
    /\ Len(col_indices) = 2 /\ col_indices[1] > col_indices[2]
    /\ emitted # <<>>
    /\ \E k \in DOMAIN emitted : file[emitted[k]].rec[1] # file[emitted[k]].rec[2]

\* C7: the predicate compiled from clause COL=V is EqualString on COL's index,
\* and each call of accepts returns whether the row's field at that index
\* equals V.
C7_AcceptsIffFieldEqualsLiteral ==
    /\ \A i \in DOMAIN n_filters :
           /\ n_filters[i].operator = "EqualString"
           /\ n_filters[i].left_column =
                  Some(col_idx_hashmap[ClauseName(FilterStrings[i])])
    /\ \A e \in DOMAIN evals :
           LET clause == FilterStrings[evals[e].filter]
               idx == col_idx_hashmap[ClauseName(clause)]
           IN evals[e].result = (file[evals[e].pos].rec[idx + 1] = ClauseLiteral(clause))

\* C8: when read_csv has failed with a compile-time error (unknown column in
\* --cols or --filter, clause without "="), no data row has been emitted.
C8_CompileErrorBeforeRows ==
    (result \in {"Err", "Panic"} /\ err \in CompileErrors) =>
        (emitted = <<>> /\ RowLines = <<>> /\ evals = <<>> /\ pos = 0)

C8_Witness ==
    /\ pc = "exited" /\ result = "Panic" /\ err \in CompileErrors
    /\ HeaderLines # <<>>
    /\ offset = 0 /\ max_rows >= 1
    /\ file # <<>> /\ file[1].ok

\* C9: once rows_processed has reached the limit (>= 1), read_csv has returned
\* Ok right after the record of the last emitted row, and from then on no
\* record is pulled, filtered or emitted and the outcome stays Ok.
C9_DoneIsTerminal ==
    /\ []((max_rows >= 1 /\ rows_processed = max_rows) =>
            /\ pc \in {"returned", "exited"}
            /\ result = "Ok"
            /\ Len(emitted) = max_rows
            /\ pos = emitted[max_rows])
    /\ [][(max_rows >= 1 /\ rows_processed = max_rows) =>
            /\ pos' = pos
            /\ emitted' = emitted
            /\ evals' = evals
            /\ result' = "Ok"
            /\ exit_code' \in {-1, 0}]_vars

C9_Witness ==
    /\ pc = "exited" /\ exit_code = 0
    /\ max_rows >= 1 /\ rows_processed = max_rows
    /\ \E p \in (pos + 1)..Len(file) : ~file[p].ok

\* C10: --cols and --filter resolve a header name to the same index, the first
\* header position that carries the name.
C10_BothResolveToFirstMatch ==
    /\ \A i \in DOMAIN n_filters :
           n_filters[i].left_column =
               Some(FirstIndex(headers, Split(FilterStrings[i], "=")[1]))
    /\ (cols # None /\ ~BadCols /\ pc \notin {"schema", "cols"}) =>
           \A i \in DOMAIN col_indices :
               col_indices[i] = FirstIndex(headers, ColNames[i])

====
